---- MODULE Spec2Model ----
(***************************************************************************)
(* Model of utils/client.go of kubecfg: the in-memory caching decorator    *)
(* memcachedDiscoveryClient over a discovery client, the ClientPool, and   *)
(* ClientForResource / serverResourceForGroupVersionKind.                  *)
(*                                                                         *)
(* Three specifications share the variables:                               *)
(*   Spec        concurrent callers of the memcachedDiscoveryClient        *)
(*   SpecResolve sequential ClientForResource calls through the cache      *)
(*   SpecTokens  the resource-name tokenisation of ClientForResource       *)
(***************************************************************************)
EXTENDS Integers, Sequences, FiniteSets, TLC

\* ------------------------------------------------------------------------
\* Bounds
\* ------------------------------------------------------------------------
\* number of goroutines calling the discovery client concurrently
NumThreads == 2
\* number of calls made on the discovery client in one behaviour
MaxCalls == 3
\* longest resource name (in characters) given to the tokenisation
MaxNameLen == 4

Threads == 1..NumThreads

\* ------------------------------------------------------------------------
\* Values
\* ------------------------------------------------------------------------
\* a string that is split is a sequence of one-character strings
Chars == {"a", "b", "/"}

RECURSIVE SeqsUpTo(_, _)
SeqsUpTo(S, n) ==
  IF n = 0 THEN {<<>>}
  ELSE LET shorter == SeqsUpTo(S, n - 1)
       IN  shorter \cup {Append(s, c) : s \in {x \in shorter : Len(x) = n - 1}, c \in S}

NameInputs == SeqsUpTo(Chars, MaxNameLen)

\* schema.GroupVersion values of the modelled cluster: the core group and apps
GroupVersions == {[group |-> "", version |-> "v1"], [group |-> "apps", version |-> "v1"]}

\* schema.GroupVersion.String(): "v1" for the core group, "group/version" otherwise
GVString(gv) == IF gv.group = "" THEN gv.version ELSE gv.group \o "/" \o gv.version

GVs == {GVString(gv) : gv \in GroupVersions}

Kinds == {"Pod", "Job"}

\* metav1.APIResource, reduced to the two fields the code reads
Res(name, kind) == [Name |-> name, Kind |-> kind]

\* the APIResources list of every answer where only the identity of the answer
\* matters (the concurrent callers of Spec)
SomeList == << Res(<<"a">>, "Pod") >>

\* the APIResources lists the underlying client may deliver
ResourceLists ==
  { <<>>,
    << Res(<<"a">>, "Pod"), Res(<<"a", "/", "b">>, "Pod") >>,
    << Res(<<"b", "/", "a", "/", "b">>, "Job"), Res(<<"a", "/">>, "Pod") >> }

\* a pointer delivered by the underlying client: id 0 is nil, every answer of
\* the underlying client is a new object (a new id); part marks an object that
\* was delivered together with a non-nil error
Nil == [id |-> 0, part |-> FALSE, gv |-> "", res |-> <<>>]
Obj(i, p, g, l) == [id |-> i, part |-> p, gv |-> g, res |-> l]


\* ------------------------------------------------------------------------
\* State
\* ------------------------------------------------------------------------
VARIABLES
  lock,            \* memcachedDiscoveryClient.lock: 0 free, else the holder
  servergroups,    \* memcachedDiscoveryClient.servergroups
  serverresources, \* memcachedDiscoveryClient.serverresources (a Go map)
  schemas,         \* memcachedDiscoveryClient.schemas (a Go map)
  schema,          \* memcachedDiscoveryClient.schema
  config,          \* ClientPool.config
  pc,              \* per goroutine: "idle", "wait" (at c.lock.Lock()),
                   \* "fetch" (underlying call of a locked method in flight),
                   \* "pass" (underlying call of a delegating method in flight)
  op,              \* per goroutine: the call in progress
  ret,             \* per goroutine: what its last call returned, if it
                   \* returned after the last Invalidate
  ncalls,          \* number of calls made on the discovery client
  nfetch,          \* number of objects the underlying client has delivered
                   \* to the locked methods
  memo,            \* history: per cached query, the object obtained with a nil
                   \* error from the underlying client since the last Invalidate
  stale,           \* history: per goroutine, an Invalidate cleared the cache
                   \* while its underlying call was in flight
  invAt,           \* history: nfetch when the last Invalidate cleared the cache
  schemaFailed,    \* history: the last OpenAPISchema call returned an error
  cfr,             \* the last ClientForResource call and its results
  tok,             \* the tokenisation of one resource name
  callersConfig,   \* the rest.Config of the caller of NewClientPool
  pcall            \* per goroutine: its ClientForGroupVersionKind call (its
                   \* position, kind, configCopy) and what it returned

cacheVars == <<lock, servergroups, serverresources, schemas, schema>>
threadVars == <<pc, op, ret, ncalls>>
histVars == <<memo, stale, invAt, schemaFailed>>
poolVars == <<callersConfig, pcall>>
vars == <<lock, servergroups, serverresources, schemas, schema, config, pc, op,
          ret, ncalls, nfetch, memo, stale, invAt, schemaFailed, cfr, tok,
          callersConfig, pcall>>

\* ------------------------------------------------------------------------
\* Go maps: a missing key reads as the zero value (nil)
\* ------------------------------------------------------------------------
EmptyMap == [k \in {} |-> Nil]
MapGet(m, k) == IF k \in DOMAIN m THEN m[k] ELSE Nil
MapPut(m, k, v) == [x \in (DOMAIN m) \cup {k} |-> IF x = k THEN v ELSE m[x]]

\* ------------------------------------------------------------------------
\* Calls and returns
\* ------------------------------------------------------------------------
LockedOps == {"Invalidate", "ServerGroups", "ServerResourcesForGroupVersion", "OpenAPISchema"}
CachedOps == {"ServerGroups", "ServerResourcesForGroupVersion", "OpenAPISchema"}
PassOps == {"ServerResources", "ServerPreferredResources",
            "ServerPreferredNamespacedResources", "ServerVersion"}

\* the cached item a call is about
KeyOf(o) == IF o.name = "ServerResourcesForGroupVersion" THEN o.gv ELSE o.name
Keys == {"ServerGroups", "OpenAPISchema"} \cup GVs

NoOp == [name |-> "", gv |-> "", repeat |-> FALSE, conc |-> FALSE, overtaken |-> FALSE]
NoRet == [name |-> "", gv |-> "", val |-> Nil, err |-> FALSE, fetched |-> FALSE,
          repeat |-> FALSE, conc |-> FALSE, overtaken |-> FALSE]

\* what the underlying client may answer: an object with a nil error, nil with
\* an error, or a partial object together with an error
Outcomes == {"ok", "error", "partial"}

\* the (value, error) pair of an answer; an object takes the next id
Answer(outcome, gv, list) ==
  [val |-> IF outcome = "error" THEN Nil ELSE Obj(nfetch + 1, outcome = "partial", gv, list),
   err |-> outcome # "ok"]

\* the answer to a delegating method: it is stored nowhere, so the identity of
\* its object is not tracked (id -1)
Uncached(outcome) ==
  [val |-> IF outcome = "error" THEN Nil ELSE Obj(-1, outcome = "partial", "", <<>>),
   err |-> outcome # "ok"]

\* the number of objects delivered once a has been
Delivered(a) == IF a.val = Nil THEN nfetch ELSE nfetch + 1

\* goroutine t returns (val, err); fetched tells that this call invoked the
\* underlying client
Returned(t, val, err, fetched) ==
  [name |-> op[t].name, gv |-> op[t].gv, val |-> val, err |-> err,
   fetched |-> fetched, repeat |-> op[t].repeat, conc |-> op[t].conc,
   overtaken |-> op[t].overtaken]

\* a goroutine invokes a method of the memcachedDiscoveryClient: a locked
\* method first blocks at c.lock.Lock(), a delegating method calls c.cl at once.
\* repeat: its previous call was the same query, returned an object with a nil
\* error, and no Invalidate has happened since (Invalidate forgets ret).
\* conc: another goroutine's call for the same cached item has not returned yet
\* (for Invalidate: another goroutine's call for any cached item).
\* overtaken: an Invalidate has returned while this call of a locked method was
\* in progress.
Call(t, name, gv) ==
  /\ pc[t] = "idle"
  /\ ncalls < MaxCalls
  /\ ncalls' = ncalls + 1
  /\ pc' = [pc EXCEPT ![t] = IF name \in PassOps THEN "pass" ELSE "wait"]
  /\ op' = [op EXCEPT ![t] =
              [name |-> name, gv |-> gv,
               repeat |-> /\ ret[t].name = name /\ ret[t].gv = gv
                          /\ ~ret[t].err /\ ret[t].val # Nil,
               conc |-> \E u \in Threads \ {t} :
                          /\ pc[u] \in {"wait", "fetch"}
                          /\ op[u].name \in CachedOps
                          /\ name = "Invalidate" \/ (op[u].name = name /\ op[u].gv = gv),
               overtaken |-> FALSE]]
  /\ ret' = [ret EXCEPT ![t] = NoRet]
  /\ UNCHANGED <<cacheVars, config, nfetch, histVars, cfr, tok, poolVars>>

\* ------------------------------------------------------------------------
\* memcachedDiscoveryClient
\* ------------------------------------------------------------------------
\* mutant of Invalidate: the cache is cleared without taking the lock
Invalidate_NoLock(t) ==
  /\ pc[t] = "wait" /\ op[t].name = "Invalidate"
  /\ servergroups' = Nil
  /\ serverresources' = EmptyMap
  /\ schemas' = EmptyMap
  /\ UNCHANGED <<lock, schema>>
  /\ pc' = [pc EXCEPT ![t] = "idle"]
  /\ op' = [u \in Threads |->
              IF u = t THEN NoOp
              ELSE IF pc[u] = "wait"
                   THEN [op[u] EXCEPT !.repeat = FALSE, !.overtaken = TRUE]
              ELSE IF pc[u] = "fetch" THEN [op[u] EXCEPT !.overtaken = TRUE]
              ELSE op[u]]
  /\ ret' = [u \in Threads |->
              IF u = t THEN Returned(t, Nil, FALSE, FALSE)
              ELSE NoRet]
  /\ memo' = [k \in Keys |-> Nil]
  /\ stale' = [u \in Threads |-> stale[u] \/ pc[u] = "fetch"]
  /\ invAt' = nfetch
  /\ UNCHANGED <<config, ncalls, nfetch, schemaFailed, cfr, tok, poolVars>>

\* Invalidate, lines 57-64: under the lock, clears servergroups, serverresources
\* and schemas
Invalidate(t) ==
  /\ pc[t] = "wait" /\ op[t].name = "Invalidate"
  /\ lock = 0
  /\ servergroups' = Nil
  /\ serverresources' = EmptyMap
  /\ schemas' = EmptyMap
  /\ UNCHANGED <<lock, schema>>
  /\ pc' = [pc EXCEPT ![t] = "idle"]
  /\ op' = [u \in Threads |->
              IF u = t THEN NoOp
              ELSE IF pc[u] = "wait"
                   THEN [op[u] EXCEPT !.repeat = FALSE, !.overtaken = TRUE]
              ELSE IF pc[u] = "fetch" THEN [op[u] EXCEPT !.overtaken = TRUE]
              ELSE op[u]]
  /\ ret' = [u \in Threads |->
              IF u = t THEN Returned(t, Nil, FALSE, FALSE)
              ELSE NoRet]
  /\ memo' = [k \in Keys |-> Nil]
  /\ stale' = [u \in Threads |-> stale[u] \/ pc[u] = "fetch"]
  /\ invAt' = nfetch
  /\ UNCHANGED <<config, ncalls, nfetch, schemaFailed, cfr, tok, poolVars>>

\* mutant of ServerGroupsEnter: the lock is released after the lookup, the
\* underlying client is called outside it
ServerGroupsEnter_Unlocked(t) ==
  /\ pc[t] = "wait" /\ op[t].name = "ServerGroups"
  /\ lock = 0
  /\ IF servergroups # Nil
     THEN /\ pc' = [pc EXCEPT ![t] = "idle"]
          /\ ret' = [ret EXCEPT ![t] = Returned(t, servergroups, FALSE, FALSE)]
          /\ op' = [op EXCEPT ![t] = NoOp]
          /\ UNCHANGED <<lock, stale>>
     ELSE /\ pc' = [pc EXCEPT ![t] = "fetch"]
          /\ lock' = 0
          /\ stale' = [stale EXCEPT ![t] = FALSE]
          /\ UNCHANGED <<op, ret>>
  /\ UNCHANGED <<servergroups, serverresources, schemas, schema, config, ncalls, nfetch,
                 memo, invAt, schemaFailed, cfr, tok, poolVars>>

\* ServerGroups, lines 71-78: takes the lock; a non-nil servergroups is returned
\* with a nil error, otherwise the underlying client is called under the lock
ServerGroupsEnter(t) ==
  /\ pc[t] = "wait" /\ op[t].name = "ServerGroups"
  /\ lock = 0
  /\ IF servergroups # Nil
     THEN /\ pc' = [pc EXCEPT ![t] = "idle"]
          /\ ret' = [ret EXCEPT ![t] = Returned(t, servergroups, FALSE, FALSE)]
          /\ op' = [op EXCEPT ![t] = NoOp]
          /\ UNCHANGED <<lock, stale>>
     ELSE /\ pc' = [pc EXCEPT ![t] = "fetch"]
          /\ lock' = t
          /\ stale' = [stale EXCEPT ![t] = FALSE]
          /\ UNCHANGED <<op, ret>>
  /\ UNCHANGED <<servergroups, serverresources, schemas, schema, config, ncalls, nfetch,
                 memo, invAt, schemaFailed, cfr, tok, poolVars>>

\* mutant of ServerGroupsFetched: the error path returns without Unlock
ServerGroupsFetched_KeepLock(t, outcome) ==
  /\ pc[t] = "fetch" /\ op[t].name = "ServerGroups"
  /\ LET a == Answer(outcome, "", <<>>)
     IN  /\ servergroups' = a.val
         /\ ret' = [ret EXCEPT ![t] = Returned(t, a.val, a.err, TRUE)]
         /\ nfetch' = Delivered(a)
         /\ memo' = IF ~a.err THEN [memo EXCEPT !["ServerGroups"] = a.val] ELSE memo
         /\ lock' = IF a.err THEN lock ELSE 0
  /\ pc' = [pc EXCEPT ![t] = "idle"]
  /\ op' = [op EXCEPT ![t] = NoOp]
  /\ stale' = [stale EXCEPT ![t] = FALSE]
  /\ UNCHANGED <<serverresources, schemas, schema, config, ncalls, invAt, schemaFailed, cfr, tok, poolVars>>

\* ServerGroups, lines 78-79: the underlying answer is assigned to servergroups
\* together with err, both are returned, the deferred Unlock runs
ServerGroupsFetched(t, outcome) ==
  /\ pc[t] = "fetch" /\ op[t].name = "ServerGroups"
  /\ LET a == Answer(outcome, "", <<>>)
     IN  /\ servergroups' = a.val
         /\ ret' = [ret EXCEPT ![t] = Returned(t, a.val, a.err, TRUE)]
         /\ nfetch' = Delivered(a)
         /\ memo' = IF ~a.err THEN [memo EXCEPT !["ServerGroups"] = a.val] ELSE memo
  /\ lock' = 0
  /\ pc' = [pc EXCEPT ![t] = "idle"]
  /\ op' = [op EXCEPT ![t] = NoOp]
  /\ stale' = [stale EXCEPT ![t] = FALSE]
  /\ UNCHANGED <<serverresources, schemas, schema, config, ncalls, invAt, schemaFailed, cfr, tok, poolVars>>

\* mutant of LookupResources: the lookup never finds the entry
LookupResources_Miss(m, groupVersion) == Nil

\* ServerResourcesForGroupVersion, line 87: the map entry of groupVersion
LookupResources(m, groupVersion) == MapGet(m, groupVersion)

\* mutant of StoreResources: the map is replaced by one that holds the answer
\* alone, the entries of the other group-versions are lost
StoreResources_Clobber(m, groupVersion, a) == [x \in {groupVersion} |-> a.val]

\* mutant of StoreResources: the answer is returned but not stored
StoreResources_Drop(m, groupVersion, a) == m

\* ServerResourcesForGroupVersion, line 90: the answer's value is stored under
\* groupVersion whatever the answer's error is
StoreResources(m, groupVersion, a) == MapPut(m, groupVersion, a.val)

\* ServerResourcesForGroupVersion, lines 83-90
ServerResourcesForGroupVersionEnter(t) ==
  /\ pc[t] = "wait" /\ op[t].name = "ServerResourcesForGroupVersion"
  /\ lock = 0
  /\ LET v == LookupResources(serverresources, op[t].gv)
     IN  IF v # Nil
         THEN /\ pc' = [pc EXCEPT ![t] = "idle"]
              /\ ret' = [ret EXCEPT ![t] = Returned(t, v, FALSE, FALSE)]
              /\ op' = [op EXCEPT ![t] = NoOp]
              /\ UNCHANGED <<lock, stale>>
         ELSE /\ pc' = [pc EXCEPT ![t] = "fetch"]
              /\ lock' = t
              /\ stale' = [stale EXCEPT ![t] = FALSE]
              /\ UNCHANGED <<op, ret>>
  /\ UNCHANGED <<servergroups, serverresources, schemas, schema, config, ncalls, nfetch,
                 memo, invAt, schemaFailed, cfr, tok, poolVars>>

\* ServerResourcesForGroupVersion, lines 90-91: the answer is stored under the
\* key groupVersion together with err, the map entry is returned
ServerResourcesForGroupVersionFetched(t, outcome, list) ==
  /\ pc[t] = "fetch" /\ op[t].name = "ServerResourcesForGroupVersion"
  /\ LET a == Answer(outcome, op[t].gv, list)
     IN  /\ serverresources' = StoreResources(serverresources, op[t].gv, a)
         /\ ret' = [ret EXCEPT ![t] = Returned(t, a.val, a.err, TRUE)]
         /\ nfetch' = Delivered(a)
         /\ memo' = IF ~a.err THEN [memo EXCEPT ![op[t].gv] = a.val] ELSE memo
  /\ lock' = 0
  /\ pc' = [pc EXCEPT ![t] = "idle"]
  /\ op' = [op EXCEPT ![t] = NoOp]
  /\ stale' = [stale EXCEPT ![t] = FALSE]
  /\ UNCHANGED <<servergroups, schemas, schema, config, ncalls, invAt, schemaFailed, cfr, tok, poolVars>>

\* OpenAPISchema, lines 111-118
OpenAPISchemaEnter(t) ==
  /\ pc[t] = "wait" /\ op[t].name = "OpenAPISchema"
  /\ lock = 0
  /\ IF schema # Nil
     THEN /\ pc' = [pc EXCEPT ![t] = "idle"]
          /\ ret' = [ret EXCEPT ![t] = Returned(t, schema, FALSE, FALSE)]
          /\ op' = [op EXCEPT ![t] = NoOp]
          /\ UNCHANGED <<lock, stale>>
     ELSE /\ pc' = [pc EXCEPT ![t] = "fetch"]
          /\ lock' = t
          /\ stale' = [stale EXCEPT ![t] = FALSE]
          /\ UNCHANGED <<op, ret>>
  /\ schemaFailed' = FALSE
  /\ UNCHANGED <<servergroups, serverresources, schemas, schema, config, ncalls, nfetch,
                 memo, invAt, cfr, tok, poolVars>>

\* mutant of OpenAPISchemaFetched: the answer is stored before err is looked at,
\* as ServerGroups does
OpenAPISchemaFetched_StoreFirst(t, outcome) ==
  /\ pc[t] = "fetch" /\ op[t].name = "OpenAPISchema"
  /\ LET a == Answer(outcome, "", <<>>)
     IN  /\ schema' = a.val
         /\ ret' = [ret EXCEPT ![t] = Returned(t, a.val, a.err, TRUE)]
         /\ memo' = IF ~a.err THEN [memo EXCEPT !["OpenAPISchema"] = a.val] ELSE memo
         /\ schemaFailed' = a.err
         /\ nfetch' = Delivered(a)
  /\ lock' = 0
  /\ pc' = [pc EXCEPT ![t] = "idle"]
  /\ op' = [op EXCEPT ![t] = NoOp]
  /\ stale' = [stale EXCEPT ![t] = FALSE]
  /\ UNCHANGED <<servergroups, serverresources, schemas, config, ncalls, invAt, cfr, tok, poolVars>>

\* OpenAPISchema, lines 118-124: on an error nil and the error are returned and
\* c.schema is not assigned; otherwise the document is stored and returned
OpenAPISchemaFetched(t, outcome) ==
  /\ pc[t] = "fetch" /\ op[t].name = "OpenAPISchema"
  /\ LET a == Answer(outcome, "", <<>>)
     IN  /\ IF a.err
            THEN /\ ret' = [ret EXCEPT ![t] = Returned(t, Nil, TRUE, TRUE)]
                 /\ UNCHANGED <<schema, memo>>
            ELSE /\ schema' = a.val
                 /\ ret' = [ret EXCEPT ![t] = Returned(t, a.val, FALSE, TRUE)]
                 /\ memo' = [memo EXCEPT !["OpenAPISchema"] = a.val]
         /\ schemaFailed' = a.err
         /\ nfetch' = Delivered(a)
  /\ lock' = 0
  /\ pc' = [pc EXCEPT ![t] = "idle"]
  /\ op' = [op EXCEPT ![t] = NoOp]
  /\ stale' = [stale EXCEPT ![t] = FALSE]
  /\ UNCHANGED <<servergroups, serverresources, schemas, config, ncalls, invAt, cfr, tok, poolVars>>

\* ServerResources, ServerPreferredResources, ServerPreferredNamespacedResources
\* and ServerVersion, lines 94-108: the answer of the underlying client is
\* returned as it is, without the lock and without touching the cache
Delegated(t, outcome) ==
  /\ pc[t] = "pass" /\ op[t].name \in PassOps
  /\ LET a == Uncached(outcome)
     IN  ret' = [ret EXCEPT ![t] = Returned(t, a.val, a.err, TRUE)]
  /\ pc' = [pc EXCEPT ![t] = "idle"]
  /\ op' = [op EXCEPT ![t] = NoOp]
  /\ UNCHANGED <<cacheVars, config, ncalls, nfetch, histVars, cfr, tok, poolVars>>


\* ------------------------------------------------------------------------
\* strings.SplitN and strings.Split with the separator "/"
\* ------------------------------------------------------------------------
\* strings.Index(s, "/"): the position of the first "/", 0 when there is none
IndexSep(s) ==
  IF \E i \in 1..Len(s) : s[i] = "/"
  THEN CHOOSE i \in 1..Len(s) : s[i] = "/" /\ \A j \in 1..(i - 1) : s[j] # "/"
  ELSE 0

\* strings.Count(s, "/")
CountSep(s) == Cardinality({i \in 1..Len(s) : s[i] = "/"})

\* strings.genSplit for n > 0: cut at the first n-1 separators, the last piece
\* is the unsplit remainder
RECURSIVE GenSplit(_, _)
GenSplit(s, n) ==
  LET m == IndexSep(s)
  IN  IF n <= 1 \/ m = 0 THEN <<s>>
      ELSE <<SubSeq(s, 1, m - 1)>> \o GenSplit(SubSeq(s, m + 1, Len(s)), n - 1)

SplitN(s, n) ==
  IF n = 0 THEN <<>>
  ELSE IF n < 0 THEN GenSplit(s, CountSep(s) + 1)
  ELSE GenSplit(s, n)

Split(s) == SplitN(s, -1)

\* mutant of ResourceTokens: the remainder after the first "/" is not split
ResourceTokens_NoSubSplit(resourceName) ==
  LET resourceTokens == SplitN(resourceName, 2)
  IN  [name |-> resourceTokens[1],
       subresources |-> IF Len(resourceTokens) > 1 THEN <<resourceTokens[2]>> ELSE <<>>]

\* ClientForResource, lines 189-194: the resource name and the subresources
ResourceTokens(resourceName) ==
  LET resourceTokens == SplitN(resourceName, 2)
  IN  [name |-> resourceTokens[1],
       subresources |-> IF Len(resourceTokens) > 1 THEN Split(resourceTokens[2]) ELSE <<>>]

\* ------------------------------------------------------------------------
\* ClientPool
\* ------------------------------------------------------------------------
\* the rest.Config the caller hands to NewClientPool
CallerConfig == [APIPath |-> "/caller", GroupVersion |-> "caller"]

\* NewClientPool, lines 135-141: the pool keeps a copy of the caller's config
NewClientPool(callerConfig) == callerConfig

\* ClientPool.apiPathResolverFunc: the resolver handed to NewClientPool, here
\* the usual one ("/api" for the core group, "/apis" for the others)
apiPathResolverFunc(kind) == IF kind.group = "" THEN "/api" ELSE "/apis"

NilClient == [APIPath |-> "", GroupVersion |-> ""]

\* ClientPool.ClientForGroupVersionKind, lines 144-161: a copy of p.config gets
\* the APIPath and GroupVersion of the kind; newOK is whether
\* dynamic.NewForConfig succeeds
ClientForGroupVersionKind(kind, newOK) ==
  LET gv == [group |-> kind.group, version |-> kind.version]
      configCopy == config
      cfg == [configCopy EXCEPT !.APIPath = apiPathResolverFunc(kind),
                                !.GroupVersion = GVString(gv)]
  IN  IF newOK THEN [client |-> cfg, err |-> FALSE]
      ELSE [client |-> NilClient, err |-> TRUE]

\* the kinds ClientForGroupVersionKind is called with
NoKind == [group |-> "", version |-> "", Kind |-> ""]
PoolKinds == {[group |-> gv.group, version |-> gv.version, Kind |-> k] :
                gv \in GroupVersions, k \in Kinds}

\* the values the caller of NewClientPool may give its own config afterwards
CallerConfigs == {CallerConfig, [APIPath |-> "/changed", GroupVersion |-> "changed"]}

NoPoolCall == [pc |-> "idle", done |-> FALSE, kind |-> NoKind, config |-> NilClient,
               client |-> NilClient, err |-> FALSE]

\* NewClientPool, line 136: the pool holds a copy of the struct, so what the
\* caller assigns to its own config afterwards stays in the caller's struct
CallerChangesConfig(c) ==
  /\ c # callersConfig
  /\ callersConfig' = c
  /\ UNCHANGED <<cacheVars, config, threadVars, nfetch, histVars, cfr, tok, pcall>>

\* ClientForGroupVersionKind, lines 144-150: configCopy := *p.config
PoolCopy(t, kind) ==
  /\ pcall[t].pc = "idle"
  /\ pcall' = [pcall EXCEPT ![t] = [NoPoolCall EXCEPT !.pc = "copied", !.kind = kind,
                                                       !.config = config]]
  /\ UNCHANGED <<cacheVars, config, threadVars, nfetch, histVars, cfr, tok, callersConfig>>

\* mutant of PoolSetAPIPath: config is p.config itself, not a copy, so the
\* assignment lands in the pool's config
PoolSetAPIPath_Shared(t) ==
  /\ pcall[t].pc = "copied"
  /\ config' = [config EXCEPT !.APIPath = apiPathResolverFunc(pcall[t].kind)]
  /\ pcall' = [pcall EXCEPT ![t].pc = "path",
                            ![t].config.APIPath = apiPathResolverFunc(pcall[t].kind)]
  /\ UNCHANGED <<cacheVars, threadVars, nfetch, histVars, cfr, tok, callersConfig>>

\* ClientForGroupVersionKind, line 152: config.APIPath of the copy
PoolSetAPIPath(t) ==
  /\ pcall[t].pc = "copied"
  /\ pcall' = [pcall EXCEPT ![t].pc = "path",
                            ![t].config.APIPath = apiPathResolverFunc(pcall[t].kind)]
  /\ UNCHANGED <<cacheVars, config, threadVars, nfetch, histVars, cfr, tok, callersConfig>>

\* ClientForGroupVersionKind, line 153: config.GroupVersion of the copy
PoolSetGroupVersion(t) ==
  /\ pcall[t].pc = "path"
  /\ pcall' = [pcall EXCEPT ![t].pc = "gv",
                            ![t].config.GroupVersion =
                               GVString([group |-> pcall[t].kind.group,
                                         version |-> pcall[t].kind.version])]
  /\ UNCHANGED <<cacheVars, config, threadVars, nfetch, histVars, cfr, tok, callersConfig>>

\* ClientForGroupVersionKind, lines 155-160: the client is built from the copy
\* and returned, or nil and the error of dynamic.NewForConfig
PoolNewForConfig(t, newOK) ==
  /\ pcall[t].pc = "gv"
  /\ pcall' = [pcall EXCEPT ![t].pc = "idle", ![t].done = TRUE,
                            ![t].client = IF newOK THEN pcall[t].config ELSE NilClient,
                            ![t].err = ~newOK]
  /\ UNCHANGED <<cacheVars, config, threadVars, nfetch, histVars, cfr, tok, callersConfig>>

\* ------------------------------------------------------------------------
\* ClientForResource
\* ------------------------------------------------------------------------
NilResource == Res(<<>>, "")

\* mutant of RangeAPIResources: the last entry of the Kind is returned
RECURSIVE RangeAPIResources_Last(_, _)
RangeAPIResources_Last(list, kind) ==
  IF list = <<>> THEN [resource |-> NilResource, err |-> TRUE]
  ELSE LET rest == RangeAPIResources_Last(Tail(list), kind)
       IN  IF ~rest.err THEN rest
           ELSE IF Head(list).Kind = kind THEN [resource |-> Head(list), err |-> FALSE]
           ELSE rest

\* serverResourceForGroupVersionKind, lines 205-210: the loop over APIResources
RECURSIVE RangeAPIResources(_, _)
RangeAPIResources(list, kind) ==
  IF list = <<>> THEN [resource |-> NilResource, err |-> TRUE]
  ELSE IF Head(list).Kind = kind THEN [resource |-> Head(list), err |-> FALSE]
  ELSE RangeAPIResources(Tail(list), kind)

\* serverResourceForGroupVersionKind, lines 199-213, given what
\* disco.ServerResourcesForGroupVersion returned
serverResourceForGroupVersionKind(resources, err, gvk) ==
  IF err THEN [resource |-> NilResource, err |-> TRUE]
  ELSE RangeAPIResources(resources.res, gvk.Kind)

\* the runtime.Object values handed to ClientForResource; accessor is whether
\* meta.Accessor accepts the object
Namespaces == {"", "n1"}
DefaultNamespaces == {"", "d"}
Objects ==
  {[gvk |-> [group |-> gv.group, version |-> gv.version, Kind |-> k],
    ns |-> n, accessor |-> acc] :
     gv \in GroupVersions, k \in Kinds, n \in Namespaces, acc \in BOOLEAN}

NilRC == [client |-> NilClient, resource |-> "", namespace |-> ""]
NoObject == [gvk |-> [group |-> "", version |-> "", Kind |-> ""], ns |-> "", accessor |-> FALSE]
NoCfr == [done |-> FALSE, obj |-> NoObject, defNs |-> "", asked |-> FALSE,
          disco |-> [gv |-> "", res |-> <<>>, err |-> FALSE], resource |-> NilResource,
          rc |-> NilRC, sub |-> <<>>, err |-> FALSE]

\* mutant of Namespace: defNs overrides the object's namespace
Namespace_AlwaysDefault(obj, defNs) == defNs

\* ClientForResource, lines 182-185: the object's namespace, defNs when it is
\* empty
Namespace(obj, defNs) == IF obj.ns = "" THEN defNs ELSE obj.ns

\* the one goroutine of SpecResolve
Caller == CHOOSE t \in Threads : TRUE

\* ClientForResource, lines 165-197, with disco the memcachedDiscoveryClient and
\* no other goroutine using it (the call counts as one call on it); newOK is whether dynamic.NewForConfig succeeds.
\* The underlying client is asked, and answers with any outcome and list, only
\* when the pool delivered a client and the cache has no object for the
\* group-version.
ClientForResource(obj, defNs, newOK) ==
  /\ lock = 0 /\ \A t \in Threads : pc[t] = "idle"
  /\ ncalls < MaxCalls
  /\ ncalls' = ncalls + 1
  /\ LET gvk == obj.gvk
         pooled == ClientForGroupVersionKind(gvk, newOK)
         groupVersion == GVString([group |-> gvk.group, version |-> gvk.version])
         hit == LookupResources(serverresources, groupVersion)
         namespace == Namespace(obj, defNs)
         call == [NoCfr EXCEPT !.done = TRUE, !.obj = obj, !.defNs = defNs]
         finish(a) ==
           LET found == serverResourceForGroupVersionKind(a.val, a.err, gvk)
               tokens == ResourceTokens(found.resource.Name)
               asked == [call EXCEPT !.asked = TRUE,
                                     !.disco = [gv |-> a.val.gv, res |-> a.val.res,
                                                err |-> a.err],
                                     !.resource = found.resource]
           IN  IF found.err \/ ~obj.accessor
               THEN [asked EXCEPT !.err = TRUE]
               ELSE [asked EXCEPT !.rc = [client |-> pooled.client,
                                          resource |-> tokens.name,
                                          namespace |-> namespace],
                                  !.sub = tokens.subresources]
     IN  IF pooled.err
         THEN /\ cfr' = [call EXCEPT !.err = TRUE]
              /\ UNCHANGED <<serverresources, nfetch, memo>>
         ELSE IF hit # Nil
         THEN /\ cfr' = finish([val |-> hit, err |-> FALSE])
              /\ UNCHANGED <<serverresources, nfetch, memo>>
         ELSE \E outcome \in Outcomes, list \in ResourceLists :
                LET a == Answer(outcome, groupVersion, list)
                   IN  /\ serverresources' = StoreResources(serverresources, groupVersion, a)
                       /\ nfetch' = Delivered(a)
                       /\ memo' = IF ~a.err THEN [memo EXCEPT ![groupVersion] = a.val]
                                  ELSE memo
                       /\ cfr' = finish(a)
  /\ UNCHANGED <<lock, servergroups, schemas, schema, config, pc, op, ret, stale,
                 invAt, schemaFailed, tok, poolVars>>

\* ------------------------------------------------------------------------
\* The tokenisation alone
\* ------------------------------------------------------------------------
NoTok == [name |-> <<>>, done |-> FALSE, resource |-> <<>>, subresources |-> <<>>]

\* lines 189-194 applied to the resource name tok.name
Tokenise ==
  /\ ~tok.done
  /\ LET tokens == ResourceTokens(tok.name)
     IN  tok' = [tok EXCEPT !.done = TRUE, !.resource = tokens.name,
                            !.subresources = tokens.subresources]
  /\ UNCHANGED <<cacheVars, config, threadVars, nfetch, histVars, cfr, poolVars>>

\* ------------------------------------------------------------------------
\* Specifications
\* ------------------------------------------------------------------------
\* NewMemcachedDiscoveryClient, lines 47-51 (the cache after its Invalidate),
\* and NewClientPool
InitClient ==
  /\ lock = 0
  /\ servergroups = Nil
  /\ serverresources = EmptyMap
  /\ schemas = EmptyMap
  /\ schema = Nil
  /\ config = NewClientPool(CallerConfig)
  /\ pc = [t \in Threads |-> "idle"]
  /\ op = [t \in Threads |-> NoOp]
  /\ ret = [t \in Threads |-> NoRet]
  /\ ncalls = 0
  /\ nfetch = 0
  /\ memo = [k \in Keys |-> Nil]
  /\ stale = [t \in Threads |-> FALSE]
  /\ invAt = 0
  /\ schemaFailed = FALSE
  /\ cfr = NoCfr
  /\ callersConfig = CallerConfig
  /\ pcall = [t \in Threads |-> NoPoolCall]

Init == InitClient /\ tok = NoTok

Next ==
  \E t \in Threads :
    \/ \E name \in (LockedOps \cup PassOps) \ {"ServerResourcesForGroupVersion"} :
         Call(t, name, "")
    \/ \E groupVersion \in GVs : Call(t, "ServerResourcesForGroupVersion", groupVersion)
    \/ Invalidate(t)
    \/ ServerGroupsEnter(t)
    \/ \E outcome \in Outcomes : ServerGroupsFetched(t, outcome)
    \/ ServerResourcesForGroupVersionEnter(t)
    \/ \E outcome \in Outcomes :
         ServerResourcesForGroupVersionFetched(t, outcome, SomeList)
    \/ OpenAPISchemaEnter(t)
    \/ \E outcome \in Outcomes : OpenAPISchemaFetched(t, outcome)
    \/ \E outcome \in Outcomes : Delegated(t, outcome)

Spec == Init /\ [][Next]_vars

\* c.lock.Lock() of lines 58, 71, 83, 111 with what the operation does before
\* it either returns or calls the underlying client
Acquire(t) ==
  \/ Invalidate(t)
  \/ ServerGroupsEnter(t)
  \/ ServerResourcesForGroupVersionEnter(t)
  \/ OpenAPISchemaEnter(t)

\* the return of the underlying client's call of lines 78, 90, 119, 95-107 and
\* the rest of the operation, the deferred Unlock included
UnderlyingReturns(t) ==
  \/ \E outcome \in Outcomes : ServerGroupsFetched(t, outcome)
  \/ \E outcome \in Outcomes :
       ServerResourcesForGroupVersionFetched(t, outcome, SomeList)
  \/ \E outcome \in Outcomes : OpenAPISchemaFetched(t, outcome)
  \/ \E outcome \in Outcomes : Delegated(t, outcome)

\* Each underlying call returns and a running goroutine goes on (weak
\* fairness); sync.RWMutex.Lock hands the lock to a goroutine that keeps
\* waiting for it, so a waiter is not passed over for ever (strong fairness).
SpecLive ==
  /\ Init /\ [][Next]_vars
  /\ \A t \in Threads : WF_vars(UnderlyingReturns(t)) /\ SF_vars(Acquire(t))

NextResolve ==
  \/ \E obj \in Objects, defNs \in DefaultNamespaces, newOK \in BOOLEAN :
       ClientForResource(obj, defNs, newOK)
  \/ Call(Caller, "Invalidate", "")
  \/ Invalidate(Caller)

SpecResolve == Init /\ [][NextResolve]_vars

InitTokens ==
  /\ InitClient
  /\ tok \in {[NoTok EXCEPT !.name = n] : n \in NameInputs}

NextTokens == Tokenise

SpecTokens == InitTokens /\ [][NextTokens]_vars

NextPool ==
  \/ \E c \in CallerConfigs : CallerChangesConfig(c)
  \/ \E t \in Threads :
       \/ \E kind \in PoolKinds : PoolCopy(t, kind)
       \/ PoolSetAPIPath(t)
       \/ PoolSetGroupVersion(t)
       \/ \E newOK \in BOOLEAN : PoolNewForConfig(t, newOK)

SpecPool == Init /\ [][NextPool]_vars


\* ------------------------------------------------------------------------
\* Claims
\* ------------------------------------------------------------------------
\* goroutine t returns from its call in this step
Returns(t) == pc[t] # "idle" /\ pc'[t] = "idle"

\* goroutine t starts a call of the underlying client in this step
Invokes(t) ==
  \/ pc[t] = "idle" /\ pc'[t] = "pass"
  \/ pc[t] = "wait" /\ pc'[t] = "fetch"

\* C1: once the underlying client has delivered an object with a nil error for
\* ServerGroups, ServerResourcesForGroupVersion(gv) or OpenAPISchema (memo of
\* that item is set, until the next Invalidate), every call of that operation
\* that is served afterwards returns that same object with a nil error and
\* does not invoke the underlying client.
C1_Memoization ==
  [][\A t \in Threads :
       (op[t].name \in CachedOps /\ memo[KeyOf(op[t])] # Nil) =>
          /\ ~Invokes(t)
          /\ Returns(t) => /\ ret'[t].val = memo[KeyOf(op[t])]
                           /\ ~ret'[t].err
                           /\ ~ret'[t].fetched
                           /\ nfetch' = nfetch]_vars

\* C1 witness: a call of each cached operation has been answered from the cache
\* with the object the underlying client delivered with a nil error
C1_Witness ==
  \E t \in Threads :
    /\ ret[t].name \in CachedOps
    /\ ~ret[t].fetched /\ ~ret[t].err
    /\ ret[t].val # Nil /\ ~ret[t].val.part
    /\ ret[t].val = memo[KeyOf(ret[t])]

\* C2 as stated: for every discovery query, the delegating ones included, a
\* repeated call after a successful one with no Invalidate in between does not
\* invoke the underlying client.
C2_AllQueriesCached ==
  \A t \in Threads :
    /\ op[t].repeat => pc[t] \notin {"fetch", "pass"}
    /\ ret[t].repeat => ~ret[t].fetched

\* C2 amended: for ServerGroups, ServerResourcesForGroupVersion and
\* OpenAPISchema a repeated call after a successful one with no Invalidate in
\* between is answered from memory with a nil error, without invoking the
\* underlying client; every call of ServerResources, ServerPreferredResources,
\* ServerPreferredNamespacedResources and ServerVersion invokes it.
C2_CachedQueriesAnsweredFromMemory ==
  \A t \in Threads :
    /\ (op[t].name \in CachedOps /\ op[t].repeat) => pc[t] # "fetch"
    /\ (ret[t].name \in CachedOps /\ ret[t].repeat) =>
          ~ret[t].fetched /\ ~ret[t].err /\ ret[t].val # Nil
    /\ ret[t].name \in PassOps => ret[t].fetched

\* C2 witness: a repeated call of a cached query has been answered from memory
C2_Witness ==
  \E t \in Threads :
    ret[t].name \in CachedOps /\ ret[t].repeat /\ ~ret[t].fetched /\ ret[t].val # Nil

\* C3: a call of ServerGroups, ServerResourcesForGroupVersion or OpenAPISchema
\* made after an Invalidate has returned (ret is a return since the last
\* Invalidate, and the call was not overtaken by it) never returns an object
\* that the underlying client delivered before that Invalidate.
C3_InvalidateDiscardsEverything ==
  \A t \in Threads :
    (ret[t].name \in CachedOps /\ ~ret[t].overtaken /\ ret[t].val # Nil) =>
       ret[t].val.id > invAt


\* strings.Join(parts, "/")
RECURSIVE Join(_)
Join(parts) ==
  IF parts = <<>> THEN <<>>
  ELSE IF Len(parts) = 1 THEN parts[1]
  ELSE parts[1] \o <<"/">> \o Join(Tail(parts))

HasSep(str) == \E i \in 1..Len(str) : str[i] = "/"

\* the group-version string of an object's kind
ObjGV(obj) == GVString([group |-> obj.gvk.group, version |-> obj.gvk.version])

\* C4: when ClientForResource has asked discovery, the resource it resolved is
\* the first entry, in list order, of the list discovery returned for the
\* object's group-version whose Kind is the object's Kind; when discovery
\* returned an error or no entry has that Kind, ClientForResource returns a nil
\* client, nil subresources and an error.
C4_ResourceResolution ==
  (cfr.done /\ cfr.asked) =>
    LET list == cfr.disco.res
        hits == {i \in 1..Len(list) : list[i].Kind = cfr.obj.gvk.Kind}
    IN  IF cfr.disco.err \/ hits = {}
        THEN cfr.resource = NilResource /\ cfr.rc = NilRC /\ cfr.sub = <<>> /\ cfr.err
        ELSE /\ cfr.disco.gv = ObjGV(cfr.obj)
             /\ cfr.resource = list[CHOOSE i \in hits : \A j \in hits : i <= j]

\* C4 witness: discovery returned a list with two different entries of the
\* object's Kind and the first of them was resolved
C4_Witness ==
  /\ cfr.done /\ cfr.asked /\ ~cfr.disco.err /\ ~cfr.err
  /\ Len(cfr.disco.res) = 2
  /\ cfr.disco.res[1].Kind = cfr.obj.gvk.Kind
  /\ cfr.disco.res[2].Kind = cfr.obj.gvk.Kind
  /\ cfr.disco.res[1] # cfr.disco.res[2]
  /\ cfr.resource = cfr.disco.res[1]

\* C5: the resource name and the subresources of a name are its "/"-separated
\* segments in order: neither contains a "/", joining them with "/" gives the
\* name back, and a name without "/" has no subresources.
C5_ResourceAndSubresources ==
  tok.done =>
    /\ ~HasSep(tok.resource)
    /\ \A i \in 1..Len(tok.subresources) : ~HasSep(tok.subresources[i])
    /\ Join(<<tok.resource>> \o tok.subresources) = tok.name
    /\ ~HasSep(tok.name) => tok.subresources = <<>>

\* C5 witness: a name with two "/" has been split into a resource and two
\* subresources
C5_Witness ==
  tok.done /\ Len(tok.subresources) = 2 /\ tok.resource # <<>>

\* C6: the resource client of a successful ClientForResource is scoped to the
\* object's namespace when that is non-empty, and to defNs when it is empty.
C6_NamespaceDefaulting ==
  (cfr.done /\ ~cfr.err) =>
    /\ cfr.obj.ns # "" => cfr.rc.namespace = cfr.obj.ns
    /\ cfr.obj.ns = "" => cfr.rc.namespace = cfr.defNs

\* C6 witnesses: an object without a namespace got defNs
C6_Witness ==
  /\ cfr.done /\ ~cfr.err
  /\ cfr.obj.ns = "" /\ cfr.defNs # "" /\ cfr.rc.namespace = cfr.defNs

\* C7: at most one underlying call of a cached operation is in flight, and it is
\* made by the holder of the lock; two calls for the same item that returned a
\* nil error since the last Invalidate returned the same object, and at most
\* one of them invoked the underlying client.
C7_SingleFetch ==
  /\ Cardinality({t \in Threads : pc[t] = "fetch"}) <= 1
  /\ \A t \in Threads : pc[t] = "fetch" => lock = t
  /\ \A t, u \in Threads :
       (/\ t # u
        /\ ret[t].name \in CachedOps
        /\ ret[t].name = ret[u].name /\ ret[t].gv = ret[u].gv
        /\ ~ret[t].err /\ ~ret[u].err) =>
          /\ ret[t].val = ret[u].val
          /\ ~(ret[t].fetched /\ ret[u].fetched)

\* C7 witness: of two concurrent calls for the same uncached item one has
\* invoked the underlying client, and both have returned its object
C7_Witness ==
  \E t, u \in Threads :
    /\ t # u
    /\ ret[t].name \in CachedOps
    /\ ret[t].name = ret[u].name /\ ret[t].gv = ret[u].gv
    /\ ret[t].fetched /\ ~ret[t].err
    /\ ret[u].conc /\ ~ret[u].fetched /\ ~ret[u].err
    /\ ret[t].val = ret[u].val /\ ret[t].val # Nil

\* C8: ServerGroups and ServerResourcesForGroupVersion never store the answer of
\* an underlying call that was in flight when an Invalidate cleared the cache,
\* and in the state in which Invalidate returns servergroups is nil and
\* serverresources has no entries.
C8_NoStaleStore ==
  [][\A t \in Threads :
       /\ (/\ op[t].name \in {"ServerGroups", "ServerResourcesForGroupVersion"}
           /\ pc[t] = "fetch" /\ Returns(t)) => ~stale[t]
       /\ (op[t].name = "Invalidate" /\ Returns(t)) =>
             servergroups' = Nil /\ DOMAIN serverresources' = {}]_vars

\* C8 witness: an Invalidate called while another goroutine's call of a cached
\* operation was in progress has returned, after an object had been fetched,
\* and the cache is empty
C8_Witness ==
  \E t \in Threads :
    /\ ret[t].name = "Invalidate" /\ ret[t].conc
    /\ invAt > 0
    /\ servergroups = Nil /\ DOMAIN serverresources = {}

\* C9: when the underlying OpenAPISchema call returns an error, OpenAPISchema
\* returns nil with an error and leaves the cached schema as it was, nil; the
\* OpenAPISchema call served next invokes the underlying client.
C9_SchemaFailureNotCached ==
  [][\A t \in Threads :
       op[t].name = "OpenAPISchema" =>
         /\ (pc[t] = "fetch" /\ Returns(t) /\ ret'[t].err) =>
               ret'[t].val = Nil /\ schema' = schema /\ schema' = Nil
         /\ (schemaFailed /\ pc[t] = "wait" /\ pc'[t] # "wait") => Invokes(t)]_vars

\* C9 witness: an OpenAPISchema call has returned nil and an error, the schema
\* is not cached, and the next OpenAPISchema call is invoking the underlying
\* client
C9_Witness ==
  \E t, u \in Threads :
    /\ ret[t].name = "OpenAPISchema" /\ ret[t].err /\ ret[t].val = Nil
    /\ schema = Nil
    /\ pc[u] = "fetch" /\ op[u].name = "OpenAPISchema"

\* C10: whenever ServerGroups or ServerResourcesForGroupVersion returns a nil
\* error, the object it returns was delivered by the underlying client with a
\* nil error (it is no partial result that came with an error).
C10_NoErrorTurnedIntoSuccess ==
  \A t \in Threads :
    (ret[t].name \in {"ServerGroups", "ServerResourcesForGroupVersion"} /\ ~ret[t].err) =>
       ~ret[t].val.part


\* goroutine t takes a step of its ServerResourcesForGroupVersion call (the
\* lookup under the lock, or the store of the answer and the return)
StepsResources(t) ==
  /\ op[t].name = "ServerResourcesForGroupVersion"
  /\ pc[t] \in {"wait", "fetch"}
  /\ pc'[t] # pc[t]

\* C11: a step of ServerResourcesForGroupVersion(gv) leaves the map entries of
\* every other group-version (present or missing), the cached server groups and
\* the cached OpenAPI schema as they were, and the object a cache hit returns
\* is one the underlying client delivered for gv.
C11_PerKeyIsolation ==
  [][\A t \in Threads :
       StepsResources(t) =>
         /\ \A g \in GVs \ {op[t].gv} :
              /\ (g \in DOMAIN serverresources') = (g \in DOMAIN serverresources)
              /\ MapGet(serverresources', g) = MapGet(serverresources, g)
         /\ DOMAIN serverresources' \subseteq (DOMAIN serverresources) \cup {op[t].gv}
         /\ servergroups' = servergroups
         /\ schema' = schema
         /\ schemas' = schemas
         /\ (Returns(t) /\ ~ret'[t].fetched) => ret'[t].val.gv = op[t].gv]_vars

\* C11 witness: a ServerResourcesForGroupVersion(gv) call has been answered from
\* the cache with an object delivered for gv while another group-version is
\* cached too
C11_Witness ==
  \E t \in Threads :
    /\ ret[t].name = "ServerResourcesForGroupVersion"
    /\ ~ret[t].fetched /\ ~ret[t].err
    /\ ret[t].val.gv = ret[t].gv
    /\ \E g \in GVs \ {ret[t].gv} : MapGet(serverresources, g) # Nil


\* C12: the pool's stored APIPath and GroupVersion always equal their values at
\* construction, whatever the caller does to its own config and however
\* ClientForGroupVersionKind calls interleave, and every client that was built
\* has the APIPath the resolver gives for its own kind and the GroupVersion of
\* its own kind.
C12_PoolConfigNeverModified ==
  /\ config.APIPath = CallerConfig.APIPath
  /\ config.GroupVersion = CallerConfig.GroupVersion
  /\ \A t \in Threads :
       (pcall[t].done /\ ~pcall[t].err) =>
          /\ pcall[t].client.APIPath = apiPathResolverFunc(pcall[t].kind)
          /\ pcall[t].client.GroupVersion =
                GVString([group |-> pcall[t].kind.group, version |-> pcall[t].kind.version])

\* C12 witness: two goroutines have built clients for kinds of different
\* groups, and the caller has changed its own config since NewClientPool
C12_Witness ==
  \E t, u \in Threads :
    /\ pcall[t].done /\ ~pcall[t].err /\ pcall[u].done /\ ~pcall[u].err
    /\ pcall[t].kind.group # pcall[u].kind.group
    /\ pcall[t].client.APIPath # pcall[u].client.APIPath
    /\ callersConfig # CallerConfig


\* the lock is held exactly by a goroutine that is inside a locked operation,
\* waiting for the underlying client
LockHeldOnlyInsideOperation ==
  /\ lock # 0 => pc[lock] = "fetch"
  /\ \A t \in Threads : pc[t] = "fetch" => lock = t

\* some goroutine has an invocation pending and no step of any goroutine is
\* possible
Deadlocked ==
  /\ \E t \in Threads : pc[t] # "idle"
  /\ \A t \in Threads : ~ENABLED (Acquire(t) \/ UnderlyingReturns(t))

\* C13: every locked operation releases the lock on every return path (no
\* goroutine that has returned holds it), no reachable state is a deadlock,
\* and, the underlying calls returning, every invocation of every goroutine
\* eventually returns.
C13_LockReleaseAndProgress ==
  /\ [](LockHeldOnlyInsideOperation /\ ~Deadlocked)
  /\ \A t \in Threads : (pc[t] # "idle") ~> (pc[t] = "idle")

\* C13 witness: all goroutines have returned and the lock is free, after one
\* invocation returned the error of the underlying client and another, which
\* was invoked while a call was in progress, returned a cache hit
C13_Witness ==
  /\ lock = 0
  /\ \A t \in Threads : pc[t] = "idle"
  /\ \E t, u \in Threads :
       /\ ret[t].name \in LockedOps /\ ret[t].fetched /\ ret[t].err
       /\ ret[u].name \in LockedOps /\ ret[u].conc /\ ~ret[u].fetched

====
